---------------------------- MODULE Spec2Model ----------------------------
(***************************************************************************)
(* The bru shim of the QuickJS sandbox (addBruShimToContext) and the       *)
(* session that installs it, runs one script and tears the interpreter     *)
(* down.  Handles are named after the JavaScript variables that hold them. *)
(***************************************************************************)
EXTENDS Integers, Sequences, FiniteSets, TLC

\* ------------------------------------------------------------------ bounds
\* Number of asynchronous capability calls one script issues.
MaxCalls == 2

\* Number of requests in one run of the Script Runner.
MaxRequests == 2

\* Number of synchronous capability calls one script makes.
MaxOps == 3

\* Number of entries of a headers object (or elements of an array) the
\* converter is given.
MaxEntries == 2

\* Number of statements in the body of a callback the converter is given.
MaxStmts == 1

\* Events the main window handles in one run of the desktop shell.
MaxEvents == 3

\* ------------------------------------------------------- capability surface
\* <<handle variable, object it is set on, property name>> , in source order.
SyncCaps ==
  << <<"cwd", "bruObject", "cwd">>,
     <<"getEnvName", "bruObject", "getEnvName">>,
     <<"getCollectionName", "bruObject", "getCollectionName">>,
     <<"getProcessEnv", "bruObject", "getProcessEnv">>,
     <<"interpolate", "bruObject", "interpolate">>,
     <<"hasEnvVar", "bruObject", "hasEnvVar">>,
     <<"getEnvVar", "bruObject", "getEnvVar">>,
     <<"setEnvVar", "bruObject", "setEnvVar">>,
     <<"deleteEnvVar", "bruObject", "deleteEnvVar">>,
     <<"getGlobalEnvVar", "bruObject", "getGlobalEnvVar">>,
     <<"getOauth2CredentialVar", "bruObject", "getOauth2CredentialVar">>,
     <<"setGlobalEnvVar", "bruObject", "setGlobalEnvVar">>,
     <<"hasVar", "bruObject", "hasVar">>,
     <<"getVar", "bruObject", "getVar">>,
     <<"setVar", "bruObject", "setVar">>,
     <<"deleteVar", "bruObject", "deleteVar">>,
     <<"deleteAllVars", "bruObject", "deleteAllVars">>,
     <<"setNextRequest", "bruObject", "setNextRequest">>,
     <<"runnerSkipRequest", "bruRunnerObject", "skipRequest">>,
     <<"runnerStopExecution", "bruRunnerObject", "stopExecution">>,
     <<"runnerSetNextRequest", "bruRunnerObject", "setNextRequest">>,
     <<"visualize", "bruObject", "visualize">>,
     <<"getSecretVar", "bruObject", "getSecretVar">>,
     <<"getRequestVar", "bruObject", "getRequestVar">>,
     <<"getFolderVar", "bruObject", "getFolderVar">>,
     <<"getCollectionVar", "bruObject", "getCollectionVar">> >>

\* The asynchronous capabilities: <<handle variable, object, property name>>.
AsyncCaps ==
  << <<"getTestResults", "bruObject", "getTestResults">>,
     <<"getAssertionResults", "bruObject", "getAssertionResults">>,
     <<"runRequestHandle", "bruObject", "runRequest">>,
     <<"sendRequestHandle", "bruObject", "_sendRequest">>,
     <<"sleep", "bruObject", "sleep">> >>

Op(op, h, obj, key) == [op |-> op, h |-> h, obj |-> obj, key |-> key]

\* f.dispose() written before vm.setProp(obj, key, f).
SyncOpsDisposeFirst(c) ==
  << Op("newFunction", c[1], "-", "-"),
     Op("dispose", c[1], "-", "-"),
     Op("setProp", c[1], c[2], c[3]) >>

\* Every synchronous capability function set on the top-level object.
SyncOpsAllOnBru(c) ==
  << Op("newFunction", c[1], "-", "-"),
     Op("setProp", c[1], "bruObject", c[3]),
     Op("dispose", c[1], "-", "-") >>

\* let f = vm.newFunction(..); vm.setProp(obj, key, f); f.dispose();
SyncOps(c) ==
  << Op("newFunction", c[1], "-", "-"),
     Op("setProp", c[1], c[2], c[3]),
     Op("dispose", c[1], "-", "-") >>

\* let f = vm.newFunction(..); f.consume((handle) => vm.setProp(obj, key, handle));
AsyncOps(c) ==
  << Op("newFunction", c[1], "-", "-"),
     Op("consume", c[1], c[2], c[3]) >>

RECURSIVE SyncInstall(_)
SyncInstall(s) ==
  IF s = << >> THEN << >> ELSE SyncOps(Head(s)) \o SyncInstall(Tail(s))

RECURSIVE AsyncInstall(_)
AsyncInstall(s) ==
  IF s = << >> THEN << >> ELSE AsyncOps(Head(s)) \o AsyncInstall(Tail(s))

\* The bootstrap evaluated right after the two objects are created.
InstallProgBootstrapFirst ==
  << Op("newObject", "bruObject", "-", "-"),
     Op("newObject", "bruRunnerObject", "-", "-"),
     Op("evalCode", "bootstrapResult", "bru", "sendRequest") >>
  \o SyncInstall(SyncCaps)
  \o AsyncInstall(AsyncCaps)
  \o << Op("setProp", "bruRunnerObject", "bruObject", "runner"),
        Op("setProp", "bruObject", "global", "bru"),
        Op("dispose", "bruObject", "-", "-") >>

\* The statements of addBruShimToContext that touch the interpreter, in order.
InstallProg ==
  << Op("newObject", "bruObject", "-", "-"),
     Op("newObject", "bruRunnerObject", "-", "-") >>
  \o SyncInstall(SyncCaps)
  \o AsyncInstall(AsyncCaps)
  \o << Op("setProp", "bruRunnerObject", "bruObject", "runner"),
        Op("setProp", "bruObject", "global", "bru"),
        Op("dispose", "bruObject", "-", "-"),
        Op("evalCode", "bootstrapResult", "bru", "sendRequest") >>

InstallLen == Len(InstallProg)


\* ------------------------------------------------------------------ values
\* A value is a record: the side of the boundary it lives on, its type, and
\* the state of its message property ("boom", "undefined" or "absent").
Value(side, type, message) == [side |-> side, type |-> type, message |-> message]

NoValue == Value("-", "-", "absent")

\* What the provider's promises fulfil with.
HostResult(cap) ==
  CASE cap \in {"getTestResults", "getAssertionResults"} -> Value("host", "results", "absent")
    [] cap \in {"runRequest", "_sendRequest"} -> Value("host", "response", "absent")
    [] OTHER -> NoValue

HostError(message, enumerable) ==
  [side |-> "host", type |-> "error", message |-> message, enumerable |-> enumerable]

\* What the provider's promises reject with: a native Error (its message is
\* not an enumerable property), an error object whose message is an own
\* enumerable property, and an error object that has no message.
HostErrors ==
  { HostError("boom", FALSE), HostError("boom", TRUE), HostError("absent", FALSE) }

NoError == [side |-> "-", type |-> "-", message |-> "absent", enumerable |-> FALSE]

\* err.message
MessageOf(err) == IF err.message = "absent" THEN "undefined" ELSE err.message

\* { message: err.message }
MessageObject(err) == Value("host", "object", MessageOf(err))

\* JSON.parse(JSON.stringify(v)): members whose value is undefined and
\* properties that are not own enumerable ones are dropped.
JsonRoundTrip(v) ==
  CASE v.type = "error" ->
         Value(v.side, "object",
               IF "enumerable" \in DOMAIN v /\ v.enumerable THEN v.message ELSE "absent")
    [] v.message = "undefined" -> Value(v.side, v.type, "absent")
    [] OTHER -> Value(v.side, v.type, v.message)

cleanJson(v) == JsonRoundTrip(v)

cleanCircularJson(v) == JsonRoundTrip(v)

\* The guest copy of a host value.
marshallToVm(v) == Value("vm", v.type, v.message)

\* vm.newString('slept')
SleptString == Value("vm", "slept", "absent")

\* null and undefined inside the guest
GuestNull == Value("vm", "null", "absent")

GuestUndefined == Value("vm", "undefined", "absent")

\* A string, with its text.
Str(side, text) ==
  [side |-> side, type |-> "string", message |-> "absent", text |-> text]

\* vm.dump(handle): the host copy of a guest value.
vmDump(v) == [v EXCEPT !.side = "host"]

\* undefined on the host
HostUndefined == Value("host", "undefined", "absent")

\* Variable names and values the scripts use.
KeyTexts == {"x", "y"}

GuestKeys == {Str("vm", t) : t \in KeyTexts}

GuestValues == {Value("vm", "number", "absent"), Value("vm", "boolean", "absent")}

\* The provider keeps one key-value store per variable scope.
Scopes == {"var", "env", "global"}

EmptyStore == [sc \in Scopes |-> [t \in KeyTexts |-> HostUndefined]]

\* Nothing was said to the provider's runner.
NoSignals == [skip |-> FALSE, stop |-> FALSE, next |-> HostUndefined]

NoLast == [cap |-> "none", hostArgs |-> << >>, ret |-> NoValue]

NoExpect == [val |-> NoValue, inSession |-> FALSE]

\* The converter has not been called.
NoAst == [fn |-> "none", in |-> << >>, out |-> << >>, n |-> 0]

\* The main window as createWindow leaves it: open, nothing handed to the
\* operating system, no event handled.
NewWindow ==
  [ closed |-> FALSE, requests |-> 0, windows |-> 0, redirects |-> 0,
    navigations |-> 0, external |-> {}, logged |-> 0, closes |-> 0,
    quitFlows |-> 0, events |-> 0 ]

\* ------------------------------------------------------------------- state
VARIABLES
  phase,        \* state of the session
  ipc,          \* next statement of InstallProg
  live,         \* handles of addBruShimToContext that are alive
  props,        \* <<object, key>> pairs set inside the guest
  created,      \* disposable guest resources created so far
  disposed,     \* dispose calls issued so far
  threwAt,      \* the handle whose dispose made addBruShimToContext throw
  running,      \* the guest is executing the synchronous part of the script
  scriptThrew,  \* the script body threw
  calls,        \* the asynchronous capability calls of the script
  mq,           \* the host's microtask queue
  undrained,    \* guest promises settled by the host since the last drain
  unhandled,    \* host handlers that threw with nothing to catch it
  lateTouch,    \* a handler used the interpreter after it was disposed
  sess,         \* the session of the run that is current
  stale,        \* <<session, handle>>: handles earlier sessions left alive
  touched,      \* <<session, owner>>: whose handles each session's builder used
  store,        \* the provider's variables, per scope and key
  runner,       \* what the script told the provider's runner
  ops,          \* synchronous capability calls made by the current script
  last,         \* the last synchronous capability call and what it returned
  expect,       \* per key, the value and session of the latest bru.setVar
  ast,          \* the syntax tree the converter was given and what it made of it
  shell         \* the main window of the desktop shell and what it has done

vars == << phase, ipc, live, props, created, disposed, threwAt, running,
           scriptThrew, calls, mq, undrained, unhandled, lateTouch,
           sess, stale, touched, store, runner, ops, last, expect, ast, shell >>

\* The state of the run around the current session.
runVars == << sess, stale, store, runner, ops, last, expect >>

\* The state of the converter and of the desktop shell, which the sandbox
\* does not touch.
toolVars == << ast, shell >>

installVars == << ipc, live, props, threwAt >>

guestVars == << running, scriptThrew, calls, mq, undrained, unhandled, lateTouch >>

CallIds == 1 .. MaxCalls

NoCall ==
  [ cap |-> "none", via |-> "direct", cb |-> "none", awaited |-> FALSE,
    host |-> "idle", err |-> NoError,
    guest |-> "none", gval |-> NoValue, settles |-> 0,
    failRan |-> FALSE, drained |-> FALSE, earlyDrain |-> FALSE, late |-> FALSE,
    wp |-> "none", wval |-> NoValue, cbCalls |-> << >>, resumed |-> FALSE ]

Init ==
  /\ phase = "Created"
  /\ ipc = 1
  /\ live = {}
  /\ props = {}
  /\ created = 0
  /\ disposed = 0
  /\ threwAt = "none"
  /\ running = FALSE
  /\ scriptThrew = FALSE
  /\ calls = [i \in CallIds |-> NoCall]
  /\ mq = << >>
  /\ undrained = 0
  /\ unhandled = 0
  /\ lateTouch = FALSE
  /\ sess = 1
  /\ stale = {}
  /\ touched = {}
  /\ store = EmptyStore
  /\ runner = NoSignals
  /\ ops = 0
  /\ last = NoLast
  /\ expect = [t \in KeyTexts |-> NoExpect]
  /\ ast = NoAst
  /\ shell = NewWindow

\* addBruShimToContext left by an exception.
BuildError == threwAt # "none"

\* ------------------------------------------------------ surface installation
\* The session hands its fresh interpreter to addBruShimToContext.
BeginInstall ==
  /\ phase = "Created"
  /\ phase' = "SurfaceInstalled"
  /\ UNCHANGED << installVars, created, disposed, guestVars >>
  /\ UNCHANGED << runVars, touched, toolVars >>

CreatesHandle(o) == o.op \in {"newObject", "newFunction", "evalCode"}

DisposesHandle(o) == o.op \in {"dispose", "consume"}

SetsProp(o) == o.op \in {"setProp", "consume", "evalCode"}

\* The handle variables kept outside the function: a handle an earlier call
\* left alive is used again.
HandleOwnerKeptAcrossCalls(o) ==
  IF \E t \in stale : t[2] = o.h
    THEN (CHOOSE t \in stale : t[2] = o.h)[1]
    ELSE sess

\* Every handle variable of addBruShimToContext is a local of the call (let /
\* const inside the function), so a statement works on a handle of its own
\* invocation.
HandleOwner(o) == sess

\* One statement of addBruShimToContext.
InstallStep ==
  /\ phase = "SurfaceInstalled"
  /\ ~BuildError
  /\ ipc <= InstallLen
  /\ LET o == InstallProg[ipc] IN
       /\ live' = IF CreatesHandle(o) THEN live \cup {o.h}
                  ELSE IF DisposesHandle(o) THEN live \ {o.h}
                  ELSE live
       /\ props' = IF SetsProp(o) THEN props \cup {<<o.obj, o.key>>} ELSE props
       /\ created' = IF CreatesHandle(o) THEN created + 1 ELSE created
       /\ disposed' = IF DisposesHandle(o) THEN disposed + 1 ELSE disposed
  /\ ipc' = ipc + 1
  /\ UNCHANGED << phase, threwAt, guestVars >>
  /\ touched' = touched \cup {<<sess, HandleOwner(InstallProg[ipc])>>}
  /\ UNCHANGED << runVars, toolVars >>

\* ------------------------------------------------------------- evaluation
\* The session evaluates the script body once the surface is installed.
BeginEvaluate ==
  /\ phase = "SurfaceInstalled"
  /\ ~BuildError
  /\ ipc > InstallLen
  /\ phase' = "Evaluating"
  /\ running' = TRUE
  /\ live' = live \cup {"scriptResult"}
  /\ created' = created + 1
  /\ UNCHANGED << ipc, props, disposed, threwAt, scriptThrew, calls, mq,
                  undrained, unhandled, lateTouch >>
  /\ UNCHANGED << runVars, touched, toolVars >>

\* The ways a script reaches an asynchronous capability: bru.<cap>(..) for the
\* five capability functions, and bru.sendRequest(cfg [, callback]), whose
\* callback returns or throws.
CallKinds ==
  { [cap |-> AsyncCaps[k][3], via |-> "direct", cb |-> "none"] :
      k \in 1 .. Len(AsyncCaps) }
  \cup { [cap |-> "_sendRequest", via |-> "wrapper", cb |-> b] :
           b \in {"none", "returns", "throws"} }

Task(kind, id, err) == [kind |-> kind, id |-> id, err |-> err]

\* Host jobs queued while the capability function itself runs.
TasksAtCall(i) == << >>

\* The settlement without its promise.settled.then(..) line.
TasksAtSettleNoDrain(i) == << >>

\* promise.settled.then(vm.runtime.executePendingJobs)
TasksAtSettle(i) == << Task("drain", i, NoError) >>

\* The capability function: vm.newPromise(), start the host operation, hand
\* promise.handle to the guest.
GuestCall(i, k, aw) ==
  /\ phase = "Evaluating"
  /\ running
  /\ calls[i].cap = "none"
  /\ \A j \in CallIds : j < i => calls[j].cap # "none"
  /\ calls' = [calls EXCEPT ![i] =
       [NoCall EXCEPT !.cap = k.cap, !.via = k.via, !.cb = k.cb,
                      !.awaited = aw, !.host = "pending", !.guest = "pending",
                      !.wp = IF k.via = "wrapper" THEN "pending" ELSE "none"]]
  /\ created' = created + 1
  /\ mq' = mq \o TasksAtCall(i)
  /\ UNCHANGED << phase, installVars, disposed, running, scriptThrew,
                  undrained, unhandled, lateTouch >>
  /\ UNCHANGED << runVars, touched, toolVars >>

\* The synchronous part of the script ends: it awaits, returns or throws.
ScriptSuspend(threw) ==
  /\ phase = "Evaluating"
  /\ running
  /\ running' = FALSE
  /\ scriptThrew' = threw
  /\ UNCHANGED << phase, installVars, created, disposed, calls, mq, undrained,
                  unhandled, lateTouch >>
  /\ UNCHANGED << runVars, touched, toolVars >>

\* The provider's promise settles; its .then reaction is queued.
HostSettle(i, outcome, err) ==
  /\ ~running
  /\ calls[i].host = "pending"
  /\ calls[i].cap # "sleep"
  /\ calls' = [calls EXCEPT ![i].host = outcome, ![i].err = err]
  /\ mq' = Append(mq, Task("then", i, err))
  /\ UNCHANGED << phase, installVars, created, disposed, running, scriptThrew,
                  undrained, unhandled, lateTouch >>
  /\ UNCHANGED << runVars, touched, toolVars >>

\* promise.resolve / promise.reject of a vm.newPromise(): the first call
\* settles the guest promise and releases its resolver handles.
Settle(c, how, val) ==
  [c EXCEPT !.guest = IF c.guest = "pending" THEN how ELSE c.guest,
            !.gval = IF c.guest = "pending" THEN val ELSE c.gval,
            !.settles = c.settles + 1]

\* .then((x) => promise.resolve(marshallToVm(clean(x), vm)))
SuccessSettlement(cap, result) ==
  [how |-> "fulfilled",
   val |-> marshallToVm(IF cap \in {"runRequest", "_sendRequest"}
                          THEN cleanCircularJson(result)
                          ELSE cleanJson(result))]

\* The failure handler of runRequest, pasted into _sendRequest as well.
FailureSettlementAlwaysResolves(cap, err) ==
  [how |-> "fulfilled", val |-> marshallToVm(cleanJson(MessageObject(err)))]

\* .catch((err) => ..): _sendRequest rejects with the cleaned error, the other
\* capabilities resolve with { message: err.message }.
FailureSettlement(cap, err) ==
  IF cap = "_sendRequest"
    THEN [how |-> "rejected", val |-> marshallToVm(cleanJson(err))]
    ELSE [how |-> "fulfilled", val |-> marshallToVm(cleanJson(MessageObject(err)))]

\* catch(error) { throw error; } in place of return Promise.reject(error)
CallbackErrorThrownIntoOuterTry == TRUE

\* catch(error) { return Promise.reject(error); } after callback(null, response)
\* threw: the error leaves as the result of the async function and is not
\* thrown into the enclosing try.
CallbackErrorIsRethrown == FALSE

\* What callback receives.
CbArgs(e, r) == [err |-> e, res |-> r]

CallbackError == Value("vm", "error", "boom")

\* The wrapper with catch(err) { } around callback(error, null): what the
\* callback throws on the failure path is dropped.
BootstrapSendRequestDropsCallbackError(c) ==
  IF c.cb = "none"
    THEN [c EXCEPT !.wp = c.guest, !.wval = c.gval]
  ELSE IF c.guest = "fulfilled"
    THEN [c EXCEPT !.cbCalls = Append(@, CbArgs(GuestNull, c.gval)),
                   !.wp = IF c.cb = "returns" THEN "fulfilled" ELSE "rejected",
                   !.wval = IF c.cb = "returns" THEN GuestUndefined ELSE CallbackError]
  ELSE [c EXCEPT !.cbCalls = Append(@, CbArgs(JsonRoundTrip(c.gval), GuestNull)),
                 !.wp = "fulfilled", !.wval = GuestUndefined]

\* globalThis.bru.sendRequest = async (requestConfig, callback) => {..}, from
\* the point where the awaited bru._sendRequest(requestConfig) has settled.
BootstrapSendRequest(c) ==
  IF c.cb = "none"
    THEN [c EXCEPT !.wp = c.guest, !.wval = c.gval]
  ELSE IF c.guest = "fulfilled"
    THEN IF c.cb = "returns"
           THEN [c EXCEPT !.cbCalls = Append(@, CbArgs(GuestNull, c.gval)),
                          !.wp = "fulfilled", !.wval = GuestUndefined]
         ELSE IF CallbackErrorIsRethrown
           THEN [c EXCEPT !.cbCalls = @ \o << CbArgs(GuestNull, c.gval),
                                             CbArgs(JsonRoundTrip(CallbackError), GuestNull) >>,
                          !.wp = "rejected", !.wval = CallbackError]
         ELSE [c EXCEPT !.cbCalls = Append(@, CbArgs(GuestNull, c.gval)),
                        !.wp = "rejected", !.wval = CallbackError]
  ELSE [c EXCEPT !.cbCalls = Append(@, CbArgs(JsonRoundTrip(c.gval), GuestNull)),
                 !.wp = IF c.cb = "returns" THEN "fulfilled" ELSE "rejected",
                 !.wval = IF c.cb = "returns" THEN GuestUndefined ELSE CallbackError]

\* One guest job: the continuation waiting on a settled capability promise.
Resume(c) ==
  IF c.guest \in {"fulfilled", "rejected"} /\ ~c.resumed
    THEN [(IF c.via = "wrapper" THEN BootstrapSendRequest(c) ELSE c)
            EXCEPT !.resumed = TRUE, !.drained = TRUE]
    ELSE c

\* vm.runtime.executePendingJobs(): every pending guest job runs.
ExecutePendingJobs(cs, i) ==
  [j \in CallIds |->
     IF j = i /\ cs[j].guest = "pending"
       THEN [cs[j] EXCEPT !.earlyDrain = TRUE]
       ELSE Resume(cs[j])]

InterpreterGone == phase = "Disposed"

\* The host runs the reaction at the head of its microtask queue.
RunMicrotask ==
  /\ ~running
  /\ mq # << >>
  /\ LET t == Head(mq)
         c == calls[t.id]
     IN
       CASE InterpreterGone ->
              \* the handler uses the disposed interpreter and throws
              /\ lateTouch' = TRUE
              /\ mq' = IF t.kind = "then"
                         THEN Append(Tail(mq), Task("catch", t.id, t.err))
                         ELSE Tail(mq)
              /\ unhandled' = IF t.kind = "then" THEN unhandled ELSE unhandled + 1
              /\ calls' = [calls EXCEPT ![t.id].late = TRUE]
              /\ UNCHANGED << created, disposed, undrained >>
         [] ~InterpreterGone /\ t.kind = "then" /\ c.host = "rejected" ->
              /\ mq' = Append(Tail(mq), Task("catch", t.id, t.err))
              /\ UNCHANGED << calls, created, disposed, undrained, unhandled, lateTouch >>
         [] ~InterpreterGone /\ t.kind = "then" /\ c.host # "rejected" ->
              LET s == SuccessSettlement(c.cap, HostResult(c.cap)) IN
                /\ calls' = [calls EXCEPT ![t.id] = Settle(c, s.how, s.val)]
                /\ mq' = Tail(mq) \o TasksAtSettle(t.id)
                /\ created' = created + 1
                /\ disposed' = disposed + 1
                /\ undrained' = undrained + 1
                /\ UNCHANGED << unhandled, lateTouch >>
         [] ~InterpreterGone /\ t.kind = "catch" ->
              LET s == FailureSettlement(c.cap, t.err) IN
                /\ calls' = [calls EXCEPT
                     ![t.id] = Settle([c EXCEPT !.failRan = TRUE], s.how, s.val)]
                /\ mq' = Tail(mq) \o TasksAtSettle(t.id)
                /\ created' = created + 1
                /\ disposed' = disposed + 1
                /\ undrained' = undrained + 1
                /\ UNCHANGED << unhandled, lateTouch >>
         [] ~InterpreterGone /\ t.kind = "drain" ->
              /\ calls' = ExecutePendingJobs(calls, t.id)
              /\ mq' = Tail(mq)
              /\ undrained' = 0
              /\ UNCHANGED << created, disposed, unhandled, lateTouch >>
  /\ UNCHANGED << phase, installVars, running, scriptThrew >>
  /\ UNCHANGED << runVars, touched, toolVars >>

\* setTimeout(() => promise.resolve(vm.newString('slept')), t) fires.
TimerFire(i) ==
  /\ ~running
  /\ mq = << >>
  /\ calls[i].cap = "sleep"
  /\ calls[i].host = "pending"
  /\ IF InterpreterGone
       THEN /\ lateTouch' = TRUE
            /\ unhandled' = unhandled + 1
            /\ calls' = [calls EXCEPT ![i].host = "fulfilled", ![i].late = TRUE]
            /\ UNCHANGED << mq, created, disposed, undrained >>
       ELSE /\ calls' = [calls EXCEPT
                 ![i] = Settle([calls[i] EXCEPT !.host = "fulfilled"],
                               "fulfilled", SleptString)]
            /\ mq' = mq \o TasksAtSettle(i)
            /\ created' = created + 1
            /\ disposed' = disposed + 1
            /\ undrained' = undrained + 1
            /\ UNCHANGED << unhandled, lateTouch >>
  /\ UNCHANGED << phase, installVars, running, scriptThrew >>
  /\ UNCHANGED << runVars, touched, toolVars >>

Issued(c) == c.cap # "none"

\* The promise the script holds for a call.
ScriptPromise(c) == IF c.via = "wrapper" THEN c.wp ELSE c.guest

\* The script body has run to its end or thrown.
ScriptDone ==
  \/ scriptThrew
  \/ \A i \in CallIds : Issued(calls[i]) /\ calls[i].awaited => calls[i].resumed

ScriptFailed ==
  \/ scriptThrew
  \/ \E i \in CallIds :
       Issued(calls[i]) /\ calls[i].awaited /\ ScriptPromise(calls[i]) = "rejected"

\* The evaluation settles and the session records its result.
Finish ==
  /\ phase = "Evaluating"
  /\ ~running
  /\ ScriptDone
  /\ phase' = IF ScriptFailed THEN "Failed" ELSE "Completed"
  /\ UNCHANGED << installVars, created, disposed, guestVars >>
  /\ UNCHANGED << runVars, touched, toolVars >>

\* The session releases what it owns and disposes the interpreter.
Teardown ==
  /\ phase \in {"Completed", "Failed"}
  /\ phase' = "Disposed"
  /\ live' = live \ {"scriptResult"}
  /\ disposed' = IF "scriptResult" \in live THEN disposed + 1 ELSE disposed
  /\ UNCHANGED << ipc, props, threwAt, created, guestVars >>
  /\ UNCHANGED << runVars, touched, toolVars >>

Next ==
  \/ BeginInstall
  \/ InstallStep
  \/ BeginEvaluate
  \/ \E i \in CallIds, k \in CallKinds, aw \in BOOLEAN : GuestCall(i, k, aw)
  \/ \E threw \in BOOLEAN : ScriptSuspend(threw)
  \/ \E i \in CallIds : HostSettle(i, "fulfilled", NoError)
  \/ \E i \in CallIds, err \in HostErrors : HostSettle(i, "rejected", err)
  \/ RunMicrotask
  \/ \E i \in CallIds : TimerFire(i)
  \/ Finish
  \/ Teardown

Spec == Init /\ [][Next]_vars

\* -------------------------------------------------- synchronous wrappers
\* The stopExecution wrapper calling the runner's skipRequest.
ProviderMethodStopCallsSkip(h) ==
  CASE h = "runnerSkipRequest" -> "skipRequest"
    [] h = "runnerStopExecution" -> "skipRequest"
    [] h = "runnerSetNextRequest" -> "setNextRequest"
    [] OTHER -> h

\* The getVar wrapper reading the environment instead of the runtime
\* variables.
ProviderMethodGetVarReadsEnv(h) ==
  CASE h = "runnerSkipRequest" -> "skipRequest"
    [] h = "runnerStopExecution" -> "stopExecution"
    [] h = "runnerSetNextRequest" -> "setNextRequest"
    [] h = "getVar" -> "getEnvVar"
    [] OTHER -> h

\* The provider method a wrapper calls.
ProviderMethod(h) ==
  CASE h = "runnerSkipRequest" -> "skipRequest"
    [] h = "runnerStopExecution" -> "stopExecution"
    [] h = "runnerSetNextRequest" -> "setNextRequest"
    [] OTHER -> h

\* The number of parameters a wrapper passes on.
Params(h) ==
  CASE h \in {"cwd", "getEnvName", "getCollectionName", "deleteAllVars",
              "runnerSkipRequest", "runnerStopExecution"} -> 0
    [] h \in {"setEnvVar", "setGlobalEnvVar", "setVar"} -> 2
    [] OTHER -> 1

\* The wrappers that return what the provider returned.
Returns(h) ==
  h \notin {"setEnvVar", "setGlobalEnvVar", "setVar", "deleteVar", "deleteAllVars",
            "setNextRequest", "runnerSkipRequest", "runnerStopExecution",
            "runnerSetNextRequest", "visualize"}

\* The parameter handle passed on as it is.
ArgToHostPassesHandle(v) == v

\* What a wrapper passes to the provider for a parameter: vm.dump(param).
ArgToHost(v) == vmDump(v)

\* What a wrapper returns to the guest.
ResultToGuest(h, r) == IF Returns(h) THEN marshallToVm(r) ELSE GuestUndefined

\* ------------------------------------------------------------ the provider
\* The scope a provider method works on.
ScopeOf(method) ==
  CASE method \in {"hasVar", "getVar", "setVar", "deleteVar", "deleteAllVars"} -> "var"
    [] method \in {"hasEnvVar", "getEnvVar", "setEnvVar", "deleteEnvVar"} -> "env"
    [] method \in {"getGlobalEnvVar", "setGlobalEnvVar"} -> "global"
    [] OTHER -> "none"

\* The provider's stores after a call.
ProviderStore(method, args, st) ==
  CASE method \in {"setVar", "setEnvVar", "setGlobalEnvVar"} ->
         [st EXCEPT ![ScopeOf(method)][args[1].text] = args[2]]
    [] method \in {"deleteVar", "deleteEnvVar"} ->
         [st EXCEPT ![ScopeOf(method)][args[1].text] = HostUndefined]
    [] method = "deleteAllVars" ->
         [st EXCEPT !["var"] = [t \in KeyTexts |-> HostUndefined]]
    [] OTHER -> st

\* What the provider returns.
ProviderReturn(method, args, st) ==
  CASE method \in {"getVar", "getEnvVar", "getGlobalEnvVar"} ->
         st[ScopeOf(method)][args[1].text]
    [] method \in {"hasVar", "hasEnvVar"} ->
         Value("host",
               IF st[ScopeOf(method)][args[1].text] # HostUndefined THEN "true" ELSE "false",
               "absent")
    [] method \in {"cwd", "getEnvName", "getCollectionName", "getProcessEnv",
                   "interpolate", "getOauth2CredentialVar", "getSecretVar",
                   "getRequestVar", "getFolderVar", "getCollectionVar"} ->
         Value("host", "string", "absent")
    [] OTHER -> HostUndefined

\* What the provider's runner has been told after a call.
ProviderRunner(method, args, r) ==
  CASE method = "skipRequest" -> [r EXCEPT !.skip = TRUE]
    [] method = "stopExecution" -> [r EXCEPT !.stop = TRUE]
    [] method = "setNextRequest" -> [r EXCEPT !.next = args[1]]
    [] OTHER -> r

\* The latest bru.setVar per key, as the scripts see it: the value, and
\* whether the current script set it.
Expected(key, guestArgs, e) ==
  CASE key = "setVar" ->
         [e EXCEPT ![guestArgs[1].text] = [val |-> guestArgs[2], inSession |-> TRUE]]
    [] key = "deleteVar" -> [e EXCEPT ![guestArgs[1].text] = NoExpect]
    [] key = "deleteAllVars" -> [t \in KeyTexts |-> NoExpect]
    [] OTHER -> e

\* The script calls the n-th synchronous capability: bru.<key>(k, v) or
\* bru.runner.<key>(k).
SyncCall(n, k, v) ==
  /\ phase = "Evaluating"
  /\ running
  /\ ops < MaxOps
  /\ LET c == SyncCaps[n]
         h == c[1]
         guestArgs == SubSeq(<<k, v>>, 1, Params(h))
         hostArgs == [a \in 1 .. Params(h) |-> ArgToHost(guestArgs[a])]
         method == ProviderMethod(h)
     IN  /\ <<c[2], c[3]>> \in props
         /\ c[2] = "bruRunnerObject" => <<"bruObject", "runner">> \in props
         /\ <<"global", "bru">> \in props
         /\ store' = ProviderStore(method, hostArgs, store)
         /\ runner' = ProviderRunner(method, hostArgs, runner)
         /\ last' = [cap |-> h, hostArgs |-> hostArgs,
                     ret |-> ResultToGuest(h, ProviderReturn(method, hostArgs, store))]
         /\ expect' = IF c[2] = "bruObject" THEN Expected(c[3], guestArgs, expect)
                      ELSE expect
  /\ ops' = ops + 1
  /\ UNCHANGED << phase, installVars, created, disposed, guestVars, sess, stale, touched,
                  toolVars >>

\* ----------------------------------------------------------------- the run
\* Each request of the run has two scripts, each run in a session of its own:
\* the pre-request script, then the tests.
MaxSessions == 2 * MaxRequests

RequestOf(s) == (s + 1) \div 2

\* The next script given a provider of its own, whose variables start empty.
NextSessionWithNewProvider ==
  /\ phase = "Disposed"
  /\ sess < MaxSessions
  /\ RequestOf(sess + 1) = RequestOf(sess) \/ ~runner.stop
  /\ sess' = sess + 1
  /\ stale' = stale \cup {<<sess, h>> : h \in live}
  /\ phase' = "Created"
  /\ ipc' = 1
  /\ live' = {}
  /\ props' = {}
  /\ created' = 0
  /\ disposed' = 0
  /\ scriptThrew' = FALSE
  /\ ops' = 0
  /\ last' = NoLast
  /\ store' = EmptyStore
  /\ expect' = [t \in KeyTexts |-> [expect[t] EXCEPT !.inSession = FALSE]]
  /\ UNCHANGED << threwAt, running, calls, mq, undrained, unhandled, lateTouch,
                  touched, runner, toolVars >>

\* The Script Runner goes on to the next script: a new interpreter and a new
\* call of addBruShimToContext with the same provider.  It starts no further
\* request once the provider's runner was told to stop.
NextSession ==
  /\ phase = "Disposed"
  /\ sess < MaxSessions
  /\ RequestOf(sess + 1) = RequestOf(sess) \/ ~runner.stop
  /\ sess' = sess + 1
  /\ stale' = stale \cup {<<sess, h>> : h \in live}
  /\ phase' = "Created"
  /\ ipc' = 1
  /\ live' = {}
  /\ props' = {}
  /\ created' = 0
  /\ disposed' = 0
  /\ scriptThrew' = FALSE
  /\ ops' = 0
  /\ last' = NoLast
  /\ expect' = [t \in KeyTexts |-> [expect[t] EXCEPT !.inSession = FALSE]]
  /\ UNCHANGED << threwAt, running, calls, mq, undrained, unhandled, lateTouch,
                  touched, store, runner, toolVars >>

\* The capabilities the scripts of a run use: the runtime variables and the
\* stop of the run.
RunCaps == {"hasVar", "getVar", "setVar", "deleteVar", "deleteAllVars", "runnerStopExecution"}

CapsAmong(hs) == {n \in 1 .. Len(SyncCaps) : SyncCaps[n][1] \in hs}

\* A run whose scripts use the runtime variables and stop the run.
RunNext ==
  \/ BeginInstall
  \/ InstallStep
  \/ BeginEvaluate
  \/ \E n \in CapsAmong(RunCaps), k \in GuestKeys, v \in GuestValues : SyncCall(n, k, v)
  \/ \E threw \in BOOLEAN : ScriptSuspend(threw)
  \/ Finish
  \/ Teardown
  \/ NextSession

RunSpec == Init /\ [][RunNext]_vars

\* One session whose script uses any of the synchronous capabilities.
SurfaceNext ==
  \/ BeginInstall
  \/ InstallStep
  \/ BeginEvaluate
  \/ \E n \in 1 .. Len(SyncCaps), k \in GuestKeys, v \in GuestValues : SyncCall(n, k, v)
  \/ \E threw \in BOOLEAN : ScriptSuspend(threw)
  \/ Finish
  \/ Teardown

SurfaceSpec == Init /\ [][SurfaceNext]_vars

\* ------------------------------------------------------------------ faults
\* handle.dispose() throws.  No statement of addBruShimToContext sits in a
\* try block, so the exception leaves the function at that statement.
DisposeThrows ==
  /\ phase = "SurfaceInstalled"
  /\ ~BuildError
  /\ ipc <= InstallLen
  /\ DisposesHandle(InstallProg[ipc])
  /\ LET o == InstallProg[ipc] IN
       /\ threwAt' = o.h
       /\ props' = IF SetsProp(o) THEN props \cup {<<o.obj, o.key>>} ELSE props
  /\ UNCHANGED << phase, ipc, live, created, disposed, guestVars >>
  /\ UNCHANGED << runVars, touched, toolVars >>

\* The session receives the exception of the surface builder.
BuildFailed ==
  /\ phase = "SurfaceInstalled"
  /\ BuildError
  /\ phase' = "Failed"
  /\ UNCHANGED << installVars, created, disposed, guestVars >>
  /\ UNCHANGED << runVars, touched, toolVars >>

\* The error a failing marshalling step throws.
MarshalError == HostError("boom", FALSE)

\* promise.resolve(..) called first and the throwing step after it.
ThrowAfterResolve(c) == Settle(c, "fulfilled", NoValue)

\* The success handler when its marshalling throws: marshallToVm(..) is the
\* argument of promise.resolve, so the handler is left before resolve is
\* called.
ThrowInResolveArgument(c) == c

\* marshallToVm (or the cleaning before it) throws inside a settlement
\* handler: out of the .then handler the error goes to the .catch handler,
\* out of the .catch handler it goes nowhere.
MarshallingThrows ==
  /\ ~running
  /\ mq # << >>
  /\ ~InterpreterGone
  /\ LET t == Head(mq)
         c == calls[t.id]
     IN
       \/ /\ t.kind = "then"
          /\ c.host = "fulfilled"
          /\ mq' = Append(Tail(mq), Task("catch", t.id, MarshalError))
          /\ calls' = [calls EXCEPT ![t.id] = ThrowInResolveArgument(c)]
          /\ UNCHANGED unhandled
       \/ /\ t.kind = "catch"
          /\ calls' = [calls EXCEPT ![t.id].failRan = TRUE]
          /\ mq' = Tail(mq)
          /\ unhandled' = unhandled + 1
  /\ UNCHANGED << phase, installVars, created, disposed, running, scriptThrew,
                  undrained, lateTouch >>
  /\ UNCHANGED << runVars, touched, toolVars >>

FaultNext ==
  \/ Next
  \/ DisposeThrows
  \/ BuildFailed
  \/ MarshallingThrows

FaultSpec == Init /\ [][FaultNext]_vars

\* ------------------------------------------------------------ the converter
\* A node of the syntax tree: its type, its name (Identifier) or value
\* (Literal), and its properties, elements or parameters.
Node(type, text, parts) == [type |-> type, text |-> text, parts |-> parts]

Identifier(name) == Node("Identifier", name, << >>)

Literal(value) == Node("Literal", value, << >>)

ObjectExpression(properties) == Node("ObjectExpression", "", properties)

ArrayExpression(elements) == Node("ArrayExpression", "", elements)

\* j.property('init', key, value)
Property(key, value) == [key |-> key, value |-> value]

\* p.key.name === k || p.key.value === k
KeyIs(p, k) == p.key.text = k

\* properties.find(p => p.key.name === k || p.key.value === k), as an index;
\* 0 when there is none.
FindKey(properties, k) ==
  IF \E i \in 1 .. Len(properties) : KeyIs(properties[i], k)
    THEN CHOOSE i \in 1 .. Len(properties) :
           /\ KeyIs(properties[i], k)
           /\ \A m \in 1 .. (i - 1) : ~KeyIs(properties[m], k)
    ELSE 0

\* String.prototype.toLowerCase on the header names in use.
toLowerCase(str) ==
  CASE str = "Content-Type" -> "content-type"
    [] str = "Accept" -> "accept"
    [] OTHER -> str

\* The filter comparing the names as they are written.
addOrUpdateHeaderCaseSensitive(requestOptions, headerName, headerValue) ==
  LET found == FindKey(requestOptions.parts, "headers")
      properties ==
        IF found = 0
          THEN Append(requestOptions.parts,
                      Property(Identifier("headers"), ObjectExpression(<< >>)))
        ELSE IF requestOptions.parts[found].value.type # "ObjectExpression"
          THEN [requestOptions.parts EXCEPT ![found].value = ObjectExpression(<< >>)]
        ELSE requestOptions.parts
      at == IF found = 0 THEN Len(properties) ELSE found
      kept == SelectSeq(properties[at].value.parts,
                        LAMBDA p : p.key.type # "Literal" \/ p.key.text # headerName)
  IN  [requestOptions EXCEPT
         !.parts = [properties EXCEPT
           ![at].value.parts =
             Append(kept, Property(Literal(headerName), Literal(headerValue)))]]

\* addOrUpdateHeader(j, requestOptions, headerName, headerValue); the result
\* is requestOptions as the call leaves it.
addOrUpdateHeader(requestOptions, headerName, headerValue) ==
  LET found == FindKey(requestOptions.parts, "headers")
      properties ==
        IF found = 0
          THEN Append(requestOptions.parts,
                      Property(Identifier("headers"), ObjectExpression(<< >>)))
        ELSE IF requestOptions.parts[found].value.type # "ObjectExpression"
          THEN [requestOptions.parts EXCEPT ![found].value = ObjectExpression(<< >>)]
        ELSE requestOptions.parts
      at == IF found = 0 THEN Len(properties) ELSE found
      kept == SelectSeq(properties[at].value.parts,
                        LAMBDA p : \/ p.key.type # "Literal"
                                   \/ toLowerCase(p.key.text) # toLowerCase(headerName))
  IN  [requestOptions EXCEPT
         !.parts = [properties EXCEPT
           ![at].value.parts =
             Append(kept, Property(Literal(headerName), Literal(headerValue)))]]

\* An element of a Postman key-value array: { key: k, value: v }.
KeyValue(k, v) ==
  ObjectExpression(<< Property(Identifier("key"), k), Property(Identifier("value"), v) >>)

\* The elements of a key-value array that convertArrayToObject takes over.
IsKeyValue(elem) ==
  /\ elem.type = "ObjectExpression"
  /\ FindKey(elem.parts, "key") # 0
  /\ FindKey(elem.parts, "value") # 0

\* convertArrayToObject(j, arrayValue)
convertArrayToObject(arrayValue) ==
  IF arrayValue.type = "ArrayExpression"
    THEN LET taken == SelectSeq(arrayValue.parts, IsKeyValue) IN
           ObjectExpression(
             [i \in 1 .. Len(taken) |->
                Property(Literal(taken[i].parts[FindKey(taken[i].parts, "key")].value.text),
                         taken[i].parts[FindKey(taken[i].parts, "value")].value)])
    ELSE ObjectExpression(<< >>)

\* prop.key.name = k; prop.key.value = k
Renamed(prop, k) == [prop EXCEPT !.key.text = k]

\* transformHeaders(j, requestOptions)
transformHeaders(requestOptions) ==
  IF requestOptions.type # "ObjectExpression" THEN requestOptions
  ELSE [requestOptions EXCEPT !.parts =
          [i \in 1 .. Len(requestOptions.parts) |->
             LET prop == requestOptions.parts[i] IN
               IF KeyIs(prop, "header")
                 THEN IF prop.value.type = "ArrayExpression"
                        THEN [Renamed(prop, "headers") EXCEPT
                                !.value = convertArrayToObject(prop.value)]
                        ELSE Renamed(prop, "headers")
                 ELSE prop]]

\* bodyProps.find(p => (p.key.name === k || p.key.value === k) &&
\* p.value.type === 'ArrayExpression'), as an index; 0 when there is none.
FindArray(properties, k) ==
  IF \E i \in 1 .. Len(properties) :
       KeyIs(properties[i], k) /\ properties[i].value.type = "ArrayExpression"
    THEN CHOOSE i \in 1 .. Len(properties) :
           /\ KeyIs(properties[i], k) /\ properties[i].value.type = "ArrayExpression"
           /\ \A m \in 1 .. (i - 1) :
                ~(KeyIs(properties[m], k) /\ properties[m].value.type = "ArrayExpression")
    ELSE 0

\* The body of the forEach of transformBody for the i-th property.
TransformBodyProp(requestOptions, i) ==
  LET prop == requestOptions.parts[i]
      bodyProps == prop.value.parts
      mode == FindKey(bodyProps, "mode")
      bodyMode == IF mode # 0 /\ bodyProps[mode].value.type = "Literal"
                    THEN bodyProps[mode].value.text ELSE "-"
      raw == FindKey(bodyProps, "raw")
      urlencoded == FindArray(bodyProps, "urlencoded")
      formdata == FindArray(bodyProps, "formdata")
      Data(value) ==
        [requestOptions EXCEPT !.parts[i] = [Renamed(prop, "data") EXCEPT !.value = value]]
  IN  IF ~(KeyIs(prop, "body") /\ prop.value.type = "ObjectExpression")
        THEN requestOptions
      ELSE IF bodyMode = "raw" /\ raw # 0
        THEN Data(bodyProps[raw].value)
      ELSE IF bodyMode = "urlencoded" /\ urlencoded # 0
        THEN addOrUpdateHeader(Data(convertArrayToObject(bodyProps[urlencoded].value)),
                               "Content-Type", "application/x-www-form-urlencoded")
      ELSE IF bodyMode = "formdata" /\ formdata # 0
        THEN addOrUpdateHeader(Data(convertArrayToObject(bodyProps[formdata].value)),
                               "Content-Type", "multipart/form-data")
      ELSE requestOptions

\* requestOptions.properties.forEach(..) of transformBody, from the i-th of
\* the n properties the array had when the loop began.
RECURSIVE TransformBodyFrom(_, _, _)
TransformBodyFrom(requestOptions, i, n) ==
  IF i > n THEN requestOptions
  ELSE TransformBodyFrom(TransformBodyProp(requestOptions, i), i + 1, n)

\* transformBody(j, requestOptions)
transformBody(requestOptions) ==
  IF requestOptions.type # "ObjectExpression" THEN requestOptions
  ELSE TransformBodyFrom(requestOptions, 1, Len(requestOptions.parts))

\* object.property
MemberExpression(object, property) == Node("MemberExpression", "", << object, property >>)

\* callee(arguments): the callee comes first, the arguments after it.
CallExpression(callee, arguments) == Node("CallExpression", "", << callee >> \o arguments)

Arguments(call) == Tail(call.parts)

\* function (params) { body } and (params) => { body }: the parameters and
\* the statements of the body.
FunctionExpression(params, body) ==
  Node("FunctionExpression", "",
       << Node("Params", "", params), Node("BlockStatement", "", body) >>)

ArrowFunctionExpression(params, body) ==
  Node("ArrowFunctionExpression", "",
       << Node("Params", "", params), Node("BlockStatement", "", body) >>)

\* null, and the undefined a function returns by a bare return.
NullNode == Node("null", "", << >>)

UndefinedNode == Node("undefined", "", << >>)

\* responsePropertyMap[name]: the Bruno name without its parentheses, and
\* whether it ends with '()'; "" when the map has no such key.
responsePropertyMap(name) ==
  CASE name \in {"json", "text"} -> [to |-> "getBody", call |-> FALSE]
    [] name = "code" -> [to |-> "getStatus", call |-> TRUE]
    [] name \in {"status", "statusText"} -> [to |-> "statusText", call |-> FALSE]
    [] name = "responseTime" -> [to |-> "getResponseTime", call |-> TRUE]
    [] name = "headers" -> [to |-> "getHeaders", call |-> TRUE]
    [] OTHER -> [to |-> "", call |-> FALSE]

\* A member expression the find of transformCallback matches and rewrites.
Rewritten(e, responseVarName) ==
  /\ e.type = "MemberExpression"
  /\ e.parts[1] = Identifier(responseVarName)
  /\ e.parts[2].type = "Identifier"
  /\ responsePropertyMap(e.parts[2].text).to # ""

\* What a statement of the callback body becomes.
TransformStatement(e, responseVarName) ==
  LET Member(m) ==
        MemberExpression(Identifier(responseVarName),
                         Identifier(responsePropertyMap(m.parts[2].text).to))
  IN  IF Rewritten(e, responseVarName)
        THEN IF responsePropertyMap(e.parts[2].text).call
               THEN CallExpression(Member(e), << >>)
               ELSE Member(e)
      ELSE IF e.type = "CallExpression" /\ Rewritten(e.parts[1], responseVarName)
        THEN IF responsePropertyMap(e.parts[1].parts[2].text).call
               THEN CallExpression(Member(e.parts[1]), << >>)
               ELSE CallExpression(Member(e.parts[1]), Arguments(e))
      ELSE e

\* transformCallback(j, callback)
transformCallback(callback) ==
  IF callback.type # "FunctionExpression" THEN NullNode
  ELSE LET params == callback.parts[1].parts
           body == callback.parts[2].parts
           responseVarName ==
             IF Len(params) >= 2 /\ params[2].type = "Identifier"
               THEN params[2].text ELSE "response"
           errorVarName ==
             IF Len(params) >= 1 /\ params[1].type = "Identifier"
               THEN params[1].text ELSE "error"
       IN  FunctionExpression(
             << Identifier(errorVarName), Identifier(responseVarName) >>,
             [i \in 1 .. Len(body) |-> TransformStatement(body[i], responseVarName)])

\* sendRequestTransformer(path, j), given path.parent.value
sendRequestTransformer(callExpr) ==
  IF callExpr.type # "CallExpression" THEN UndefinedNode
  ELSE IF Arguments(callExpr) = << >> THEN UndefinedNode
  ELSE LET args == Arguments(callExpr)
           requestOptions ==
             IF args[1].type = "ObjectExpression"
               THEN transformBody(transformHeaders(args[1]))
               ELSE args[1]
       IN  IF Len(args) >= 2
             THEN LET transformedCallback == transformCallback(args[2]) IN
                    CallExpression(Identifier("bru.sendRequest"),
                                   IF transformedCallback # NullNode
                                     THEN << requestOptions, transformedCallback >>
                                     ELSE << requestOptions >>)
             ELSE CallExpression(Identifier("bru.sendRequest"), << requestOptions >>)

\* The keys and entries of the headers objects the converter is given.
HeaderKeys ==
  {Literal("Content-Type"), Literal("content-type"), Literal("Accept"), Identifier("Accept")}

HeaderEntries == {Property(k, Literal(v)) : k \in HeaderKeys, v \in {"a", "b"}}

EntrySeqs == UNION {[1 .. n -> HeaderEntries] : n \in 0 .. MaxEntries}

\* Request options: a url, and no headers, headers given as an object, or
\* headers given as some other expression.
HeaderOptions ==
  LET url == Property(Identifier("url"), Literal("u"))
      values == {ObjectExpression(es) : es \in EntrySeqs} \cup {Identifier("commonHeaders")}
  IN  {ObjectExpression(<< url >>)}
        \cup {ObjectExpression(<< url, Property(Identifier("headers"), v) >>) : v \in values}

HeaderArgNames == {"Content-Type", "accept"}

HeaderArgValues == {"application/x-www-form-urlencoded", "multipart/form-data"}

\* addOrUpdateHeader is called.
CallAddOrUpdateHeader(opts, name, value) ==
  /\ ast = NoAst
  /\ ast' = [fn |-> "addOrUpdateHeader",
             in |-> [opts |-> opts, name |-> name, value |-> value],
             out |-> addOrUpdateHeader(opts, name, value),
             n |-> 1]
  /\ UNCHANGED << phase, installVars, created, disposed, guestVars, runVars, touched, shell >>

\* The same call once more, on the request options the first call left.
CallAddOrUpdateHeaderAgain ==
  /\ ast.fn = "addOrUpdateHeader"
  /\ ast.n = 1
  /\ ast' = [ast EXCEPT !.out = addOrUpdateHeader(ast.out, ast.in.name, ast.in.value),
                        !.n = 2]
  /\ UNCHANGED << phase, installVars, created, disposed, guestVars, runVars, touched, shell >>

\* The request options pm.sendRequest is given: a url string, a variable, or
\* an object with a url, with or without header / headers, with or without
\* a body.
KeyValues ==
  {KeyValue(Literal("Accept"), Literal("a")), KeyValue(Literal("content-type"), Literal("b"))}

HeaderParts ==
  {<< >>, << Property(Identifier("headers"),
                      ObjectExpression(<< Property(Literal("content-type"), Literal("b")) >>)) >>}
    \cup {<< Property(Identifier("header"), ArrayExpression(es)) >> :
            es \in UNION {[1 .. n -> KeyValues] : n \in 0 .. MaxEntries}}

Body(mode, key, value) ==
  Property(Identifier("body"),
           ObjectExpression(<< Property(Identifier("mode"), Literal(mode)),
                               Property(Identifier(key), value) >>))

BodyParts ==
  LET fields == ArrayExpression(<< KeyValue(Literal("f"), Literal("1")) >>) IN
    {<< >>,
     << Property(Identifier("body"), Identifier("payload")) >>,
     << Body("raw", "raw", Literal("text")) >>,
     << Body("urlencoded", "urlencoded", fields) >>,
     << Body("formdata", "formdata", fields) >>}

SendRequestOptions ==
  {Literal("https://example.com"), Identifier("options")}
    \cup {ObjectExpression(<< Property(Identifier("url"), Literal("u")) >> \o h \o b) :
            h \in HeaderParts, b \in BodyParts}

\* The callbacks pm.sendRequest is given.
CallbackParams ==
  {<< >>, << Identifier("err") >>, << Identifier("err"), Identifier("res") >>,
   << Identifier("error"), Identifier("response") >>}

CallbackStatements ==
  LET members == {MemberExpression(Identifier(o), Identifier(q)) :
                    o \in {"res", "response"}, q \in {"json", "code", "headers", "status", "id"}}
  IN  members \cup {CallExpression(m, << >>) : m \in members}

CallbackBodies == UNION {[1 .. n -> CallbackStatements] : n \in 0 .. MaxStmts}

Callbacks ==
  {FunctionExpression(ps, b) : ps \in CallbackParams, b \in CallbackBodies}
    \cup {ArrowFunctionExpression(<< Identifier("err"), Identifier("res") >>, << >>),
          Identifier("handleResponse")}

\* The parents of a pm.sendRequest member expression: a call of it with no,
\* one or two arguments, or something that does not call it.
PmSendRequest == MemberExpression(Identifier("pm"), Identifier("sendRequest"))

SendRequestParents ==
  {Node("VariableDeclarator", "", << PmSendRequest >>), CallExpression(PmSendRequest, << >>)}
    \cup {CallExpression(PmSendRequest, << o >>) : o \in SendRequestOptions}
    \cup {CallExpression(PmSendRequest, << o, cb >>) : o \in SendRequestOptions, cb \in Callbacks}

\* sendRequestTransformer is called for a pm.sendRequest in the script.
CallSendRequestTransformer(parent) ==
  /\ ast = NoAst
  /\ ast' = [fn |-> "sendRequestTransformer",
             in |-> [parent |-> parent],
             out |-> sendRequestTransformer(parent),
             n |-> 1]
  /\ UNCHANGED << phase, installVars, created, disposed, guestVars, runVars, touched, shell >>

ConverterNext ==
  \/ \E opts \in HeaderOptions, name \in HeaderArgNames, value \in HeaderArgValues :
       CallAddOrUpdateHeader(opts, name, value)
  \/ CallAddOrUpdateHeaderAgain
  \/ \E parent \in SendRequestParents : CallSendRequestTransformer(parent)

ConverterSpec == Init /\ [][ConverterNext]_vars

\* ----------------------------------------------------------- desktop shell
\* A URL as the renderer writes it: the scheme before the colon ("" when
\* the text has none), whether "//" follows the colon, and the host.
Schemes == {"", "http", "https", "HTTPS", "file", "javascript", "mailto"}

Hosts == {"", "example.com"}

Urls == [scheme : Schemes, slashes : BOOLEAN, host : Hosts]

\* The URL parser's lower-casing of the scheme.
SchemeLowerCase(scheme) == IF scheme = "HTTPS" THEN "https" ELSE scheme

\* new URL(url) throws: the text has no scheme and there is no base, or the
\* scheme is http or https and the host is empty.
URLThrows(url) ==
  \/ url.scheme = ""
  \/ SchemeLowerCase(url.scheme) \in {"http", "https"} /\ url.host = ""

\* new URL(url).protocol, written without its colon.
protocol(url) == SchemeLowerCase(url.scheme)

\* A test that looks for "//" after any scheme.
RedirectTestAnyScheme(url) == url.scheme # "" /\ url.slashes

\* /^(http:\/\/|https:\/\/)/.test(url)
RedirectTest(url) == url.scheme \in {"http", "https"} /\ url.slashes

\* The handler given to setWindowOpenHandler: what it returns, the URLs it
\* hands to shell.openExternal and the errors it logs.
WindowOpenHandler(url) ==
  [ action |-> "deny",
    external |-> IF ~URLThrows(url) /\ protocol(url) \in {"https", "http"}
                   THEN {url} ELSE {},
    logged |-> IF URLThrows(url) THEN 1 ELSE 0 ]

\* The listener of 'will-redirect': whether it called preventDefault, and
\* the URLs it hands to shell.openExternal.
WillRedirectListener(url) ==
  [ prevented |-> TRUE,
    external |-> IF RedirectTest(url) THEN {url} ELSE {} ]

\* The listener of 'close': whether it called preventDefault, and how often
\* it emits 'main:start-quit-flow'.
CloseListener == [prevented |-> TRUE, quitFlows |-> 1]

\* The renderer asks for a new window; the window opens when the handler
\* answers 'allow'.
WindowOpen(url) ==
  LET r == WindowOpenHandler(url) IN
    /\ shell.events < MaxEvents
    /\ ~shell.closed
    /\ shell' = [shell EXCEPT
                   !.requests = @ + 1,
                   !.windows = IF r.action = "allow" THEN @ + 1 ELSE @,
                   !.external = @ \cup r.external,
                   !.logged = @ + r.logged,
                   !.events = @ + 1]
    /\ UNCHANGED << phase, installVars, created, disposed, guestVars, runVars, touched, ast >>

\* A navigation of the main window is redirected; it goes on unless the
\* listener prevented it.
WillRedirect(url) ==
  LET r == WillRedirectListener(url) IN
    /\ shell.events < MaxEvents
    /\ ~shell.closed
    /\ shell' = [shell EXCEPT
                   !.redirects = @ + 1,
                   !.navigations = IF r.prevented THEN @ ELSE @ + 1,
                   !.external = @ \cup r.external,
                   !.events = @ + 1]
    /\ UNCHANGED << phase, installVars, created, disposed, guestVars, runVars, touched, ast >>

\* The main window is asked to close; it closes unless the listener
\* prevented it.
Close ==
  LET r == CloseListener IN
    /\ shell.events < MaxEvents
    /\ ~shell.closed
    /\ shell' = [shell EXCEPT
                   !.closes = @ + 1,
                   !.closed = ~r.prevented,
                   !.quitFlows = @ + r.quitFlows,
                   !.events = @ + 1]
    /\ UNCHANGED << phase, installVars, created, disposed, guestVars, runVars, touched, ast >>

ShellNext ==
  \/ \E url \in Urls : WindowOpen(url)
  \/ \E url \in Urls : WillRedirect(url)
  \/ Close

ShellSpec == Init /\ [][ShellNext]_vars

\* ------------------------------------------------------------------ claims
Settled(c) == c.guest \in {"fulfilled", "rejected"}

HostSettled(c) == c.host \in {"fulfilled", "rejected"}

HasTask(i) == \E k \in 1 .. Len(mq) : mq[k].id = i

MarshalledResponse == Value("vm", "response", "absent")

\* C1: when the session has ended, as many dispose calls have been issued as
\* disposable guest resources were created.
C1_DisposalsEqualCreations == phase = "Disposed" => created = disposed

SendRequestNoCallback(c) == c.via = "wrapper" /\ c.cb = "none"

SendRequestWithCallback(c) == c.via = "wrapper" /\ c.cb # "none"

C5_DrainBetweenSettlements == undrained <= 1

QueuedDrains == {k \in 1 .. Len(mq) : mq[k].kind = "drain"}

\* C5, amended: while the interpreter is alive, every settlement that no drain
\* has followed yet has its own drain waiting in the host's queue.
C5_EverySettlementHasDrainQueued ==
  ~InterpreterGone => undrained <= Cardinality(QueuedDrains)

C5_Witness == undrained = 2 /\ phase = "Evaluating"

RejectingCaps == {"runRequest", "_sendRequest", "getTestResults", "getAssertionResults"}

\* C6: when the provider's promise of runRequest, _sendRequest, getTestResults
\* or getAssertionResults rejects, the guest promise is rejected, with an
\* error object.
C6_HostFailureRejectsGuest ==
  \A i \in CallIds :
    LET c == calls[i] IN
      c.cap \in RejectingCaps /\ c.host = "rejected" /\ Settled(c) =>
        c.guest = "rejected" /\ c.gval.type = "object"

\* C7: the error value settled into the guest promise for a host error without
\* a message still has a message.
C7_GuestErrorHasMessage ==
  \A i \in CallIds :
    LET c == calls[i] IN
      c.host = "rejected" /\ c.err.message = "absent" /\ Settled(c) =>
        c.gval.message \notin {"absent", "undefined"}

\* C8: whenever the failure handler of a call has run, also when producing the
\* marshalled error failed in it, the guest promise is settled.
C8_FailureHandlerAlwaysSettles ==
  \A i \in CallIds : calls[i].failRan => Settled(calls[i])

SessionEdges ==
  { <<"Created", "SurfaceInstalled">>, <<"SurfaceInstalled", "Evaluating">>,
    <<"Evaluating", "Completed">>, <<"Evaluating", "Failed">>,
    <<"Completed", "Disposed">>, <<"Failed", "Disposed">> }

\* Nothing the host or the guest still has to run can move the session.
SessionStuck ==
  /\ ~running
  /\ mq = << >>
  /\ phase = "Evaluating"
  /\ \A i \in CallIds : Issued(calls[i]) => HostSettled(calls[i])

\* C9: the session only moves along Created -> SurfaceInstalled -> Evaluating
\* -> {Completed | Failed} -> Disposed, and it is never left in Evaluating
\* with nothing more to run, whatever error occurs.
C9_SessionReachesDisposed ==
  /\ [][phase' # phase => <<phase, phase'>> \in SessionEdges]_vars
  /\ [](~(SessionStuck /\ ~ScriptDone))

\* C10: when a dispose threw during installation, every other handle that was
\* allocated has been disposed by the end of the session.
C10_OtherHandlesStillDisposed ==
  phase = "Disposed" /\ BuildError => live \subseteq {threwAt}

\* The handle variables of the capability functions.
CapabilityHandles ==
  {SyncCaps[n][1] : n \in 1 .. Len(SyncCaps)} \cup {AsyncCaps[n][1] : n \in 1 .. Len(AsyncCaps)}

\* C11: the sessions of a run share no handles: every statement of
\* addBruShimToContext works on a handle of its own session, each session has
\* disposed all its capability function handles when the surface is
\* installed, and no capability function handle of an earlier session is
\* still alive.
C11_SessionsShareNoHandles ==
  /\ \A t \in touched : t[1] = t[2]
  /\ ipc > InstallLen => live \cap CapabilityHandles = {}
  /\ \A t \in stale : t[2] \notin CapabilityHandles

\* The second session has its surface installed while handles the first
\* session left alive still exist.
C11_Witness ==
  /\ sess = 2
  /\ ipc > InstallLen
  /\ <<2, 2>> \in touched
  /\ \E t \in stale : t[1] = 1

\* The key of the last synchronous capability call.
LastKey == last.hostArgs[1].text

\* C12: when bru.getVar(k) returns and the latest bru.setVar(k, v) was made
\* by the same script with no bru.deleteVar(k) or bru.deleteAllVars() after
\* it, the value returned is v.
C12_GetVarReturnsLastSetVar ==
  last.cap = "getVar" /\ expect[LastKey].inSession => last.ret = expect[LastKey].val

\* A script set both variables to different values and then read the first.
C12_Witness ==
  /\ last.cap = "getVar"
  /\ ops = 3
  /\ \A t \in KeyTexts : expect[t].inSession
  /\ \E t \in KeyTexts : expect[t].val # expect[LastKey].val
  /\ last.ret = expect[LastKey].val

\* C13: the provider's variables outlive the session: when bru.getVar(k)
\* returns in a later script of the run and the latest bru.setVar(k, v) was
\* made by an earlier script with no bru.deleteVar(k) or bru.deleteAllVars()
\* since, the value returned is v, although the later session starts with an
\* interpreter of its own and works on its own handles only.
C13_VariableOutlivesSession ==
  /\ /\ last.cap = "getVar"
     /\ ~expect[LastKey].inSession
     /\ expect[LastKey] # NoExpect
     => last.ret = expect[LastKey].val
  /\ phase = "Created" => live = {} /\ props = {}
  /\ \A t \in touched : t[1] = t[2]

\* The tests script of the first request reads a variable its pre-request
\* script set.
C13_Witness ==
  /\ sess = 2
  /\ last.cap = "getVar"
  /\ ~expect[LastKey].inSession
  /\ expect[LastKey] # NoExpect
  /\ last.ret = expect[LastKey].val
  /\ last.ret \in GuestValues

\* C14: when bru.runner.stopExecution() has returned, the provider's runner
\* has been told to stop; from then on the Script Runner starts no script of
\* a later request; the call leaves the script running, and a session fails
\* only when its script threw.
C14_StopExecutionStopsTheRun ==
  /\ [](last.cap = "runnerStopExecution" => runner.stop)
  /\ [](phase = "Failed" => scriptThrew)
  /\ [][runner.stop => RequestOf(sess') = RequestOf(sess)]_vars
  /\ [][~runner.stop /\ runner'.stop => phase' = "Evaluating" /\ running']_vars

\* The pre-request script of the first request stopped the run, went on to
\* read a variable and completed.
C14_Witness ==
  /\ sess = 1
  /\ runner.stop
  /\ last.cap = "getVar"
  /\ phase = "Completed"

RunControl == {"skipRequest", "stopExecution", "setNextRequest"}

\* The surface is installed: addBruShimToContext has returned.
Installed == phase \in {"SurfaceInstalled", "Evaluating"} /\ ipc > InstallLen

\* C15 as stated: once the surface is installed, skipRequest, stopExecution
\* and setNextRequest are each a member of the top-level bru object and of
\* bru.runner.
C15_RunControlOnBothObjects ==
  Installed =>
    \A k \in RunControl : <<"bruObject", k>> \in props /\ <<"bruRunnerObject", k>> \in props

\* C15: once the surface is installed, bru is a global whose runner member
\* has skipRequest, stopExecution and setNextRequest; of the three the
\* top-level bru object has setNextRequest only.
C15_RunControlUnderRunner ==
  Installed =>
    /\ <<"global", "bru">> \in props
    /\ <<"bruObject", "runner">> \in props
    /\ \A k \in RunControl : <<"bruRunnerObject", k>> \in props
    /\ \A k \in RunControl : <<"bruObject", k>> \in props <=> k = "setNextRequest"

\* A script has called the three run-control operations.
C15_Witness ==
  /\ Installed
  /\ runner.skip
  /\ runner.stop
  /\ runner.next # HostUndefined

\* C16: once bru.sendRequest(cfg, cb) has gone through its callback, the
\* promise it returned is rejected with the callback's error when cb threw or
\* returned a rejected promise, and fulfilled when cb returned normally,
\* whether the dispatch was fulfilled or rejected.
C16_CallbackDecidesWrapperPromise ==
  \A i \in CallIds :
    LET c == calls[i] IN
      SendRequestWithCallback(c) /\ c.resumed =>
        /\ c.cb = "throws" => c.wp = "rejected" /\ c.wval = CallbackError
        /\ c.cb = "returns" => c.wp = "fulfilled"

\* Two dispatches failed: the callback of one threw, the callback of the
\* other returned.
C16_Witness ==
  \E i, j \in CallIds :
    /\ SendRequestWithCallback(calls[i]) /\ calls[i].resumed
    /\ calls[i].guest = "rejected" /\ calls[i].cb = "throws" /\ calls[i].wp = "rejected"
    /\ SendRequestWithCallback(calls[j]) /\ calls[j].resumed
    /\ calls[j].guest = "rejected" /\ calls[j].cb = "returns" /\ calls[j].wp = "fulfilled"

\* The property names of the asynchronous capabilities.
AsyncNames == {AsyncCaps[n][3] : n \in 1 .. Len(AsyncCaps)}

BootstrapsRun == {n \in 1 .. (ipc - 1) : InstallProg[n].op = "evalCode"}

\* C18: when the bootstrap has defined bru.sendRequest, _sendRequest and
\* runner are set on bru and bru is installed on the global; the bootstrap is
\* evaluated at most once, and exactly once before the script is evaluated;
\* every call of bru.sendRequest is a call of bru._sendRequest.
C18_BootstrapAfterSurface ==
  /\ <<"bru", "sendRequest">> \in props =>
       {<<"bruObject", "_sendRequest">>, <<"bruObject", "runner">>, <<"global", "bru">>}
         \subseteq props
  /\ Cardinality(BootstrapsRun) <= 1
  /\ phase \in {"Evaluating", "Completed", "Failed"} =>
       Cardinality(BootstrapsRun) = 1 /\ <<"bru", "sendRequest">> \in props
  /\ \A i \in CallIds : calls[i].via = "wrapper" => calls[i].cap = "_sendRequest"

\* The script called bru.sendRequest and the call went through.
C18_Witness ==
  /\ phase = "Evaluating"
  /\ \E i \in CallIds :
       calls[i].via = "wrapper" /\ calls[i].cap = "_sendRequest" /\ calls[i].resumed

\* C19: no settlement callback of an asynchronous capability (a .then or
\* .catch reaction of the provider's promise, the timer of bru.sleep, the
\* queued drain) uses the interpreter after the session was disposed.
C19_NoUseAfterDisposed ==
  /\ ~lateTouch
  /\ \A i \in CallIds : ~calls[i].late

\* C20: promise.resolve and promise.reject together are invoked at most once
\* for every guest promise of an asynchronous capability call, also when
\* marshalling the success value threw and the failure handler ran.
C20_SettledAtMostOnce ==
  \A i \in CallIds : calls[i].settles <= 1

\* The provider fulfilled, marshalling the result threw, and the failure
\* handler settled the guest promise.
C20_Witness ==
  \E i \in CallIds :
    /\ calls[i].host = "fulfilled"
    /\ calls[i].failRan
    /\ calls[i].settles = 1

\* The host-side handles a statement of addBruShimToContext works on;
\* vm.global is not a handle of the function.
UsedHandles(o) ==
  CASE o.op \in {"setProp", "consume"} -> {o.h, o.obj} \ {"global"}
    [] o.op = "dispose" -> {o.h}
    [] OTHER -> {}

\* The statements among the first n of prog that dispose a handle.
DisposalsIn(prog, n) == {m \in 1 .. n : DisposesHandle(prog[m])}

\* The property a capability function is set as.
PropOf(c) == <<c[2], c[3]>>

\* C21: during installation the statement about to run works on live handles
\* only, so none is used after its dispose and none is disposed twice; a
\* capability function that has been disposed or consumed is set as its
\* property; and once bru is disposed, runner is set on bru and bru on the
\* global.
C21_NoUseAfterDispose ==
  LET prog == InstallProg
      ran == DisposalsIn(prog, ipc - 1)
      gone == {prog[m].h : m \in ran}
  IN  /\ phase = "SurfaceInstalled" /\ ipc <= InstallLen =>
           UsedHandles(prog[ipc]) \subseteq live
      /\ Cardinality(ran) = Cardinality(gone)
      /\ \A n \in 1 .. Len(SyncCaps) :
           SyncCaps[n][1] \in gone => PropOf(SyncCaps[n]) \in props
      /\ \A n \in 1 .. Len(AsyncCaps) :
           AsyncCaps[n][1] \in gone => PropOf(AsyncCaps[n]) \in props
      /\ "bruObject" \in gone =>
           <<"bruObject", "runner">> \in props /\ <<"global", "bru">> \in props

\* The installation has run to its end: bru is disposed and is a global.
C21_Witness ==
  /\ phase = "SurfaceInstalled"
  /\ ipc > InstallLen
  /\ "bruObject" \in {InstallProg[m].h : m \in DisposalsIn(InstallProg, InstallLen)}
  /\ "bruObject" \notin live
  /\ <<"global", "bru">> \in props

\* The entries of the headers property of request options; none when there
\* is no such property or it is not an object.
HeaderEntriesOf(opts) ==
  LET at == FindKey(opts.parts, "headers") IN
    IF at # 0 /\ opts.parts[at].value.type = "ObjectExpression"
      THEN opts.parts[at].value.parts
      ELSE << >>

\* A header entry with a literal key that is name, whatever the case.
Names(entry, name) ==
  entry.key.type = "Literal" /\ toLowerCase(entry.key.text) = toLowerCase(name)

\* The properties of request options other than headers.
OtherProperties(opts) == SelectSeq(opts.parts, LAMBDA p : ~KeyIs(p, "headers"))

\* C22: after addOrUpdateHeader(j, opts, name, value) the request options
\* have a headers property that is an object; exactly one of its entries has
\* a literal key equal to name whatever the case, it is the last entry and
\* carries value; the other entries are those of before, in order; the other
\* properties of the options are unchanged; and the call made twice leaves
\* what the call made once leaves.
C22_HeaderAddedOrUpdated ==
  ast.fn = "addOrUpdateHeader" =>
    LET at == FindKey(ast.out.parts, "headers")
        entries == HeaderEntriesOf(ast.out)
        before == HeaderEntriesOf(ast.in.opts)
    IN  /\ at # 0
        /\ ast.out.parts[at].value.type = "ObjectExpression"
        /\ Cardinality({i \in 1 .. Len(entries) : Names(entries[i], ast.in.name)}) = 1
        /\ entries # << >>
        /\ entries[Len(entries)] = Property(Literal(ast.in.name), Literal(ast.in.value))
        /\ SubSeq(entries, 1, Len(entries) - 1)
             = SelectSeq(before, LAMBDA e : ~Names(e, ast.in.name))
        /\ OtherProperties(ast.out) = OtherProperties(ast.in.opts)
        /\ ast.n = 2 => ast.out = addOrUpdateHeader(ast.in.opts, ast.in.name, ast.in.value)

\* The call made twice on headers that had the name in another case, and
\* another header before it.
C22_Witness ==
  /\ ast.fn = "addOrUpdateHeader"
  /\ ast.n = 2
  /\ ast.in.name = "Content-Type"
  /\ HeaderEntriesOf(ast.in.opts) =
       << Property(Identifier("Accept"), Literal("a")),
          Property(Literal("content-type"), Literal("b")) >>
  /\ HeaderEntriesOf(ast.out) =
       << Property(Identifier("Accept"), Literal("a")),
          Property(Literal("Content-Type"), Literal(ast.in.value)) >>

\* C23: for a pm.sendRequest call with at least one argument the result of
\* sendRequestTransformer is a call of bru.sendRequest whose first argument
\* is the request options; it has two arguments when the source call had a
\* callback and exactly one when it had none.
C23_CallBecomesBruSendRequest ==
  /\ ast.fn = "sendRequestTransformer"
  /\ ast.in.parent.type = "CallExpression"
  /\ Arguments(ast.in.parent) # << >>
  => LET args == Arguments(ast.in.parent)
         made == Arguments(ast.out)
     IN  /\ ast.out.type = "CallExpression"
         /\ ast.out.parts[1] = Identifier("bru.sendRequest")
         /\ made # << >>
         /\ made[1].type = args[1].type
         /\ args[1].type # "ObjectExpression" => made[1] = args[1]
         /\ args[1].type = "ObjectExpression" => FindKey(made[1].parts, "url") # 0
         /\ Len(args) >= 2 => Len(made) = 2
         /\ Len(args) = 1 => Len(made) = 1

\* C24: in the desktop shell every request for a new window is denied and
\* every redirect is cancelled, only URLs whose scheme is http or https are
\* handed to the operating system's opener, and every attempt to close the
\* main window is cancelled and emits 'main:start-quit-flow' once.
C24_ShellDeniesAndDefers ==
  /\ shell.windows = 0
  /\ shell.navigations = 0
  /\ \A url \in shell.external : SchemeLowerCase(url.scheme) \in {"http", "https"}
  /\ ~shell.closed
  /\ shell.quitFlows = shell.closes

\* A run in which a window was requested, a navigation was redirected and
\* the main window was asked to close, with a URL handed to the opener.
C24_Witness ==
  /\ shell.requests >= 1
  /\ shell.redirects >= 1
  /\ shell.closes >= 1
  /\ shell.external # {}

=============================================================================
